---- MODULE Spec2Model ----
(***************************************************************************)
(* Model of the dfttk structure builders (endmembers.py, dilute.py) and of *)
(* the QHA aggregation task of tests/test_QHA_failure.py.                  *)
(*                                                                         *)
(* Python strings are modelled as sequences of character codes, so that    *)
(* sorted() orders them the way Python does (by code point).               *)
(* Python lists are 0-based, the sequences here are 1-based: site k of the *)
(* model is site k-1 of the code.                                          *)
(***************************************************************************)
EXTENDS Integers, Sequences, FiniteSets, TLC

VARIABLES
  pc,                        \* which call of the session has returned
  structure,                 \* the structure object the caller owns
  snapshot,                  \* what that object held before the call
  equivalent_wyckoff_sites,  \* the optional equivalence map argument
  sga,                       \* the symmetry analyses made so far
  site_list,                 \* last return of get_sublattice_information
  subl_model_name,           \* last return of get_sublattice_information
  template_locals,           \* get_templates: its locals site_list, true_sublattices
  template_structure,        \* return of get_templates
  template_configuration,    \* return of get_templates
  sublattice_configuration,  \* argument of get_endmembers_with_templates
  endmembers,                \* outcome of get_endmembers_with_templates
  structures,                \* argument of dilute_substitution
  element_dict,              \* argument of dilute_substitution (candidate pool)
  dilute_strs,               \* return of dilute_substitution
  task,                      \* the QHAAnalysis_failure task parameters
  vasp_db,                   \* the database the task reads and writes
  qha_summary                \* the qha_summary.json file

vars == <<pc, structure, snapshot, equivalent_wyckoff_sites, sga, site_list,
          subl_model_name, template_locals, template_structure,
          template_configuration, sublattice_configuration, endmembers,
          structures, element_dict, dilute_strs, task, vasp_db, qha_summary>>

templateVars == <<structure, snapshot, equivalent_wyckoff_sites, sga, site_list,
                  subl_model_name, template_locals, template_structure,
                  template_configuration>>
endmemberVars == <<sublattice_configuration, endmembers>>
diluteVars == <<structures, element_dict, dilute_strs>>
qhaVars == <<task, vasp_db, qha_summary>>

----------------------------------------------------------------------------
(* Strings *)

\* element symbols
sH  == <<72>>
sHe == <<72, 101>>
sLi == <<76, 105>>
sBe == <<66, 101>>
sB  == <<66>>
sC  == <<67>>
sN  == <<78>>
sO  == <<79>>
sNa == <<78, 97>>
sK  == <<75>>
sMg == <<77, 103>>
sCl == <<67, 108>>

\* Wyckoff letters
la == <<97>>
lb == <<98>>
lc == <<99>>
ld == <<100>>
lf == <<102>>

Range(s) == {s[i] : i \in DOMAIN s}

SeqsUpTo(S, lo, hi) == UNION {[1..n -> S] : n \in lo..hi}

\* Python's str.__lt__: lexicographic by code point, a proper prefix is smaller
StrLess(s, t) ==
  \E i \in 1..Len(t) :
    /\ \A j \in 1..(i - 1) : j <= Len(s) /\ s[j] = t[j]
    /\ (i > Len(s) \/ s[i] < t[i])

\* sorted(set(...)) and sorted(dict): the distinct strings in ascending order
RECURSIVE SortedSet(_)
SortedSet(S) ==
  IF S = {} THEN <<>>
  ELSE LET least == CHOOSE x \in S : \A y \in S \ {x} : StrLess(x, y)
       IN  <<least>> \o SortedSet(S \ {least})

\* position of x in the sequence s (x occurs in s)
IndexOf(s, x) == CHOOSE i \in DOMAIN s : s[i] = x

\* dict lookups; a dict is a set of <<key, value>> pairs with distinct keys
DictHas(d, k) == \E p \in d : p[1] = k
DictGet(d, k) == (CHOOSE p \in d : p[1] = k)[2]
DictKeys(d) == {p[1] : p \in d}

----------------------------------------------------------------------------
(* Bounds and input domains *)

MaxSites == 3          \* sites of the structure given to the sublattice modeler
MaxTemplateSites == 4  \* sites of the structure a session of endmembers starts from
MaxStructures == 2     \* structures given to dilute_substitution
MaxDiluteSites == 3    \* sites of a structure given to dilute_substitution
MaxPhonons == 6        \* adopted phonon calculations in the database
MaxStatics == 2        \* adopted static calculations in the database

Lattices == {"cubic", "hexagonal"}
InputElements == {sH, sNa, sCl}
WyckoffLetters == {la, lb, lf}
TemplateLetters == {la, lb, lc, ld}

NoMap == [none |-> TRUE, items |-> {}]
Map(items) == [none |-> FALSE, items |-> items]
EquivalenceMaps ==
  { NoMap,
    Map({<<lb, lf>>}),
    Map({<<lb, lf>>, <<lf, la>>}),
    Map({<<la, sB>>, <<lb, sH>>}),
    Map({<<la, sHe>>, <<lf, sH>>}) }

NoProperties(n) == [k \in 1..n |-> {}]
NoStructure == [lattice |-> "none", species |-> <<>>, properties |-> <<>>]

----------------------------------------------------------------------------
(* endmembers.py: get_sublattice_information *)

\* pymatgen Structure.replace_species: every site whose species is a key of the
\* mapping gets the mapped species, in one pass
ReplaceSpecies(species, mapping) ==
  [k \in DOMAIN species |->
     IF DictHas(mapping, species[k]) THEN DictGet(mapping, species[k]) ELSE species[k]]

\* a build of line 31 that leaves the species as they are
NormalizedSpecies_Skipped(species) == species

\* line 31: structure.replace_species({sp.name: "H" for sp in structure.species})
NormalizedSpecies(species) ==
  ReplaceSpecies(species, {<<sp, sH>> : sp \in Range(species)})

\* a build of lines 34-37 that follows the map until no key matches (two hops)
TrueSublatticeSites_Chained(wyckoff_sites, eq) ==
  LET hop(x) == IF ~eq.none /\ DictHas(eq.items, x) THEN DictGet(eq.items, x) ELSE x
  IN  [k \in DOMAIN wyckoff_sites |-> hop(hop(wyckoff_sites[k]))]

\* lines 34-37: the map is applied once to each label
TrueSublatticeSites(wyckoff_sites, eq) ==
  IF ~eq.none
  THEN [k \in DOMAIN wyckoff_sites |->
          IF DictHas(eq.items, wyckoff_sites[k])
          THEN DictGet(eq.items, wyckoff_sites[k])
          ELSE wyckoff_sites[k]]
  ELSE wyckoff_sites

\* lines 38-41
SiteList(true_sublattice_sites) ==
  [k \in DOMAIN true_sublattice_sites |->
     [sublattice_sites |-> true_sublattice_sites[k]]]

\* line 42 (the structures modelled have at least one site, so the loop body runs)
SublModelName(true_sublattice_sites) == SortedSet(Range(true_sublattice_sites))

\* lines 32-33: SpacegroupAnalyzer(structure).get_symmetry_dataset()['wyckoffs'].
\* The analysis is an unknown but deterministic function of the lattice and the
\* species: an analysis made before is repeated, a new one may give any labels.
Wyckoffs(s, letters) ==
  IF \E e \in sga : e.lattice = s.lattice /\ e.species = s.species
  THEN {e.wyckoffs : e \in {x \in sga : x.lattice = s.lattice /\ x.species = s.species}}
  ELSE [1..Len(s.species) -> letters]

Analysed(s, w) ==
  sga \cup {[lattice |-> s.lattice, species |-> s.species, wyckoffs |-> w]}

\* the structure object after line 31
Normalized(s) == [s EXCEPT !.species = NormalizedSpecies(s.species)]

----------------------------------------------------------------------------
(* endmembers.py: get_templates *)

\* pymatgen Element.from_Z(z), as str
ElementFromZ(z) ==
  CASE z = 1 -> sH [] z = 2 -> sHe [] z = 3 -> sLi [] z = 4 -> sBe
    [] z = 5 -> sB [] z = 6 -> sC  [] z = 7 -> sN  [] z = 8 -> sO

\* dict.update on a property bag
DictUpdate(d, new) == {p \in d : ~DictHas(new, p[1])} \cup new

\* lines 69-72: serialise, attach the label to the properties and overwrite the
\* species with the label
MarkedSites(s, sites) ==
  [lattice |-> s.lattice,
   species |-> [k \in DOMAIN s.species |-> sites[k].sublattice_sites],
   properties |-> [k \in DOMAIN s.species |->
      DictUpdate(s.properties[k],
                 {<<"sublattice_sites", sites[k].sublattice_sites>>})]]

\* lines 74-77: for i in range(len(true_sublattices)), every site whose species
\* field equals true_sublattices[i] gets Element.from_Z(i+1); here i is i+1
RECURSIVE ReplaceMarkers(_, _, _)
ReplaceMarkers(species, names, i) ==
  IF i > Len(names) THEN species
  ELSE ReplaceMarkers(
         [k \in DOMAIN species |->
            IF species[k] = names[i] THEN ElementFromZ(i) ELSE species[k]],
         names, i + 1)

\* line 78
TemplateConfiguration(names) == [i \in 1..Len(names) |-> ElementFromZ(i)]

\* lines 69-79
TemplateStructure(s, sites, names) ==
  LET dict_struct == MarkedSites(s, sites)
  IN  [dict_struct EXCEPT !.species = ReplaceMarkers(dict_struct.species, names, 1)]

----------------------------------------------------------------------------
(* Sessions of the sublattice modeler: the caller owns one structure and     *)
(* calls get_sublattice_information or get_templates on it, and may then    *)
(* call get_sublattice_information again on the template it got back.       *)

NoReturn == [status |-> "none", value |-> <<>>]
NoLocals == [site_list |-> <<>>, true_sublattices |-> <<>>, generated |-> FALSE]

IdleEndmembers ==
  /\ sublattice_configuration = <<>>
  /\ endmembers = NoReturn

IdleDilute ==
  /\ structures = <<>>
  /\ element_dict = <<>>
  /\ dilute_strs = <<>>

NoSummary == [written |-> FALSE, has_phonon |-> FALSE, phonon |-> FALSE]

IdleQHA ==
  /\ task = [test_failure |-> "absent", outcome |-> "none"]
  /\ vasp_db = [statics |-> 0, phonon |-> 0, phonon_other |-> 0,
                qha |-> 0, qha_phonon |-> 0]
  /\ qha_summary = NoSummary

IdleModeler ==
  /\ structure = NoStructure
  /\ snapshot = NoStructure
  /\ equivalent_wyckoff_sites = NoMap
  /\ sga = {}
  /\ site_list = <<>>
  /\ subl_model_name = <<>>
  /\ template_locals = NoLocals
  /\ template_structure = NoStructure
  /\ template_configuration = <<>>

InitModeler(lattices, elements, maxSites, maps) ==
  /\ pc = "start"
  /\ \E n \in 1..maxSites :
       structure \in [lattice : lattices,
                      species : [1..n -> elements],
                      properties : {NoProperties(n)}]
  /\ snapshot = structure
  /\ equivalent_wyckoff_sites \in maps
  /\ sga = {}
  /\ site_list = <<>>
  /\ subl_model_name = <<>>
  /\ template_locals = NoLocals
  /\ template_structure = NoStructure
  /\ template_configuration = <<>>

\* get_sublattice_information(structure, equivalent_wyckoff_sites), lines 31-43
get_sublattice_information(letters) ==
  /\ pc = "start"
  /\ \E w \in Wyckoffs(Normalized(structure), letters) :
       LET t == TrueSublatticeSites(w, equivalent_wyckoff_sites)
       IN  /\ sga' = Analysed(Normalized(structure), w)
           /\ structure' = Normalized(structure)
           /\ site_list' = SiteList(t)
           /\ subl_model_name' = SublModelName(t)
  /\ pc' = "sublattice_information"
  /\ UNCHANGED <<snapshot, equivalent_wyckoff_sites, template_locals,
                 template_structure, template_configuration>>
  /\ UNCHANGED <<endmemberVars, diluteVars, qhaVars>>

\* get_templates(structure, equivalent_wyckoff_sites), lines 65-80, the call of
\* get_sublattice_information on the caller's structure included
get_templates(letters) ==
  /\ pc = "start"
  /\ \E w \in Wyckoffs(Normalized(structure), letters) :
       LET t == TrueSublatticeSites(w, equivalent_wyckoff_sites)
           sites == SiteList(t)
           names == SublModelName(t)
       IN  /\ sga' = Analysed(Normalized(structure), w)
           /\ structure' = Normalized(structure)
           /\ site_list' = sites
           /\ subl_model_name' = names
           /\ template_locals' = [site_list |-> sites, true_sublattices |-> names,
                                  generated |-> TRUE]
           /\ template_structure' = TemplateStructure(Normalized(structure), sites, names)
           /\ template_configuration' = TemplateConfiguration(names)
  /\ pc' = "templates"
  /\ UNCHANGED <<snapshot, equivalent_wyckoff_sites>>
  /\ UNCHANGED <<endmemberVars, diluteVars, qhaVars>>

\* get_sublattice_information(template_structure), no equivalence map
rerun_on_template(letters) ==
  /\ pc = "templates"
  /\ \E w \in Wyckoffs(Normalized(template_structure), letters) :
       LET t == TrueSublatticeSites(w, NoMap)
       IN  /\ sga' = Analysed(Normalized(template_structure), w)
           /\ template_structure' = Normalized(template_structure)
           /\ site_list' = SiteList(t)
           /\ subl_model_name' = SublModelName(t)
  /\ pc' = "rerun"
  /\ UNCHANGED <<structure, snapshot, equivalent_wyckoff_sites, template_locals,
                 template_configuration>>
  /\ UNCHANGED <<endmemberVars, diluteVars, qhaVars>>

ModelerSublattices == get_sublattice_information(WyckoffLetters)
ModelerTemplates == get_templates(WyckoffLetters)
ModelerRerun == rerun_on_template(WyckoffLetters)

InitSublattices ==
  /\ InitModeler(Lattices, InputElements, MaxSites, EquivalenceMaps)
  /\ IdleEndmembers /\ IdleDilute /\ IdleQHA

NextSublattices == ModelerSublattices \/ ModelerTemplates \/ ModelerRerun

SpecSublattices == InitSublattices /\ [][NextSublattices]_vars

----------------------------------------------------------------------------
(* endmembers.py: get_endmembers_with_templates *)

Min(a, b) == IF a <= b THEN a ELSE b

\* line 103: dict(map(lambda x, y: [x, y], template_configuration,
\* sublattice_configuration)); map stops at the shorter argument and a repeated
\* key keeps its last value
ElementDict(tc, sc) ==
  LET n == Min(Len(tc), Len(sc))
  IN  {<<tc[i], sc[i]>> : i \in {j \in 1..n : \A l \in (j + 1)..n : tc[l] # tc[j]}}

RECURSIVE Flatten(_)
Flatten(seqs) == IF seqs = <<>> THEN <<>> ELSE Head(seqs) \o Flatten(Tail(seqs))

\* a build of itertools.product that pairs the lists up like zip
RECURSIVE Product_Zipped(_)
Product_Zipped(lists) ==
  IF lists = <<>> THEN << <<>> >>
  ELSE LET rest == Product_Zipped(Tail(lists))
           n == IF Len(lists) = 1 THEN Len(Head(lists))
                ELSE Min(Len(Head(lists)), Len(rest))
       IN  [i \in 1..n |-> <<Head(lists)[i]>> \o rest[IF Len(lists) = 1 THEN 1 ELSE i]]

\* itertools.product(*lists): all tuples, the right-most list varying fastest
RECURSIVE Product(_)
Product(lists) ==
  IF lists = <<>> THEN << <<>> >>
  ELSE LET rest == Product(Tail(lists))
       IN  Flatten([i \in 1..Len(Head(lists)) |->
                      [r \in 1..Len(rest) |-> <<Head(lists)[i]>> \o rest[r]]])

\* lines 104-106: product(*map(element_dict.get, sorted(element_dict)))
SublCombination(tc, sc) ==
  LET d == ElementDict(tc, sc)
      keys == SortedSet(DictKeys(d))
  IN  Product([i \in 1..Len(keys) |-> DictGet(d, keys[i])])

\* substitutions.substitute_configuration(structure, [template_config], [config]):
\* every site carrying placeholder template_config[i] gets config[i]; a config
\* of another length than the template configuration is an error
SubstituteConfiguration(s, template_config, config) ==
  LET tc == Flatten(template_config)
      c == Flatten(config)
  IN  IF Len(tc) # Len(c)
      THEN [status |-> "SubstitutionFailure", value |-> NoStructure]
      ELSE [status |-> "returned",
            value |-> [s EXCEPT !.species =
                         ReplaceSpecies(s.species, {<<tc[i], c[i]>> : i \in DOMAIN tc})]]

\* lines 103-110
EndmembersWithTemplates(s, tc, sc) ==
  LET subl_combination == SublCombination(tc, sc)
      made == [i \in DOMAIN subl_combination |->
                 SubstituteConfiguration(s, <<tc>>, <<subl_combination[i]>>)]
  IN  IF \E i \in DOMAIN made : made[i].status # "returned"
      THEN [status |-> "SubstitutionFailure", value |-> <<>>]
      ELSE [status |-> "returned", value |-> [i \in DOMAIN made |-> made[i].value]]

----------------------------------------------------------------------------
(* Sessions of the endmember generator: a template from get_templates, or a  *)
(* template the caller wrote by hand, then get_endmembers_with_templates.    *)

MaxConfiguration == 4  \* entries of sublattice_configuration

CandidateLists == {<<>>, <<sNa, sK>>, <<sCl>>}
ManualConfigurations == SeqsUpTo({sH, sHe, sLi}, 1, 2)
EndmemberMaps == {NoMap}

EndmemberTemplates == get_templates(TemplateLetters)

\* the caller writes template_configuration by hand and marks the sites with it
manual_template ==
  /\ pc = "start"
  /\ \E tc \in ManualConfigurations :
       /\ template_configuration' = tc
       /\ template_structure' =
            [structure EXCEPT !.species =
               [k \in DOMAIN structure.species |-> tc[((k - 1) % Len(tc)) + 1]]]
  /\ pc' = "templates"
  /\ UNCHANGED <<structure, snapshot, equivalent_wyckoff_sites, sga, site_list,
                 subl_model_name, template_locals>>
  /\ UNCHANGED <<endmemberVars, diluteVars, qhaVars>>

get_endmembers_with_templates ==
  /\ pc = "templates"
  /\ \E sc \in SeqsUpTo(CandidateLists, 0, MaxConfiguration) :
       /\ sublattice_configuration' = sc
       /\ endmembers' = EndmembersWithTemplates(template_structure,
                                                template_configuration, sc)
  /\ pc' = "endmembers"
  /\ UNCHANGED <<templateVars, diluteVars, qhaVars>>

InitEndmembers ==
  /\ InitModeler({"cubic"}, {sNa}, MaxTemplateSites, EndmemberMaps)
  /\ IdleEndmembers /\ IdleDilute /\ IdleQHA

NextEndmembers == EndmemberTemplates \/ manual_template \/ get_endmembers_with_templates

SpecEndmembers == InitEndmembers /\ [][NextEndmembers]_vars

----------------------------------------------------------------------------
(* dilute.py: dilute_substitution *)

\* lines 26-28: SpacegroupAnalyzer(strs).get_symmetry_dataset()['equivalent_atoms'].
\* The analysis answers with the first site of each class of equivalent sites;
\* sites are equivalent when the bare lattice makes them so (orbits) and they
\* carry the same species.
EquivalentAtoms(strs, orbits) ==
  [k \in DOMAIN strs.species |->
     CHOOSE j \in 1..k :
       /\ orbits[j] = orbits[k] /\ strs.species[j] = strs.species[k]
       /\ \A l \in 1..(j - 1) :
            ~(orbits[l] = orbits[k] /\ strs.species[l] = strs.species[k])]

\* line 29: Counter(equal_atoms).keys(), the distinct values in first-seen order
RECURSIVE CounterKeys(_)
CounterKeys(s) ==
  IF s = <<>> THEN <<>>
  ELSE LET front == CounterKeys(SubSeq(s, 1, Len(s) - 1))
           last == s[Len(s)]
       IN  IF last \in Range(front) THEN front ELSE Append(front, last)

\* a build of lines 33-36 without the test of line 34
RECURSIVE CandidateLoop_Unguarded(_, _, _, _, _)
CandidateLoop_Unguarded(dictstr, old_ele, i, pool, j) ==
  IF j > Len(pool) THEN <<>>
  ELSE LET changed == [dictstr EXCEPT !.species[i] = pool[j]]
       IN  <<changed>> \o CandidateLoop_Unguarded(changed, old_ele, i, pool, j + 1)

\* lines 33-36: for j in element_dict, from candidate j on; dictstr is the one
\* dict of site i, changed in place from candidate to candidate, and every
\* Structure.from_dict(dictstr) is a structure of its own
RECURSIVE CandidateLoop(_, _, _, _, _)
CandidateLoop(dictstr, old_ele, i, pool, j) ==
  IF j > Len(pool) THEN <<>>
  ELSE IF old_ele # pool[j]
       THEN LET changed == [dictstr EXCEPT !.species[i] = pool[j]]
            IN  <<changed>> \o CandidateLoop(changed, old_ele, i, pool, j + 1)
       ELSE CandidateLoop(dictstr, old_ele, i, pool, j + 1)

\* a build of lines 30-36 that serialises the structure once, before the loop
\* over the sites, and goes on changing that one dict
RECURSIVE SiteLoop_SharedDict(_, _, _, _)
SiteLoop_SharedDict(strs, num, pool, n) ==
  IF n > Len(num) THEN <<>>
  ELSE LET made == CandidateLoop(strs, strs.species[num[n]], num[n], pool, 1)
           dictstr == IF made = <<>> THEN strs ELSE made[Len(made)]
       IN  made \o SiteLoop_SharedDict(dictstr, num, pool, n + 1)

\* lines 30-36: for i in num, from the n-th representative on; every site starts
\* from a fresh strs.as_dict()
RECURSIVE SiteLoop(_, _, _, _)
SiteLoop(strs, num, pool, n) ==
  IF n > Len(num) THEN <<>>
  ELSE CandidateLoop(strs, strs.species[num[n]], num[n], pool, 1)
         \o SiteLoop(strs, num, pool, n + 1)

\* lines 24-37
RECURSIVE DiluteSubstitution(_, _, _)
DiluteSubstitution(strlist, pool, orbits) ==
  IF strlist = <<>> THEN <<>>
  ELSE LET strs == Head(strlist)
           equal_atoms == EquivalentAtoms(strs, orbits)
           num == CounterKeys(equal_atoms)
       IN  SiteLoop(strs, num, pool, 1) \o DiluteSubstitution(Tail(strlist), pool, orbits)

----------------------------------------------------------------------------
(* Sessions of the dilute generator: a list of endmembers of one template    *)
(* ("list of endmember structures from endmember.py") and a candidate pool. *)

DiluteElements == {sNa, sK}
Pools == {<<>>, <<sK>>, <<sNa, sK>>, <<sNa, sK, sMg>>, <<sK, sNa, sNa>>}

\* the partitions of n sites into orbits, each written with its orbits numbered
\* in order of first appearance
Orbits(n) ==
  {o \in [1..n -> 1..n] :
     \A k \in 1..n : o[k] <= 1 + Cardinality({o[j] : j \in 1..(k - 1)})}

\* the endmembers of a template on n sites: the sites of one orbit are in one
\* sublattice, and so carry one species
Endmembers(n, o) ==
  {e \in [lattice : {"cubic"},
          species : [1..n -> DiluteElements],
          properties : {NoProperties(n)}] :
     \A j \in 1..n : \A k \in 1..n : o[j] = o[k] => e.species[j] = e.species[k]}

InitDilute ==
  /\ pc = "start"
  /\ \E n \in 1..MaxDiluteSites : \E o \in Orbits(n) :
       /\ sga = [orbits |-> o]
       /\ structures \in SeqsUpTo(Endmembers(n, o), 1, MaxStructures)
  /\ element_dict \in Pools
  /\ dilute_strs = <<>>
  /\ structure = NoStructure
  /\ snapshot = NoStructure
  /\ equivalent_wyckoff_sites = NoMap
  /\ site_list = <<>>
  /\ subl_model_name = <<>>
  /\ template_locals = NoLocals
  /\ template_structure = NoStructure
  /\ template_configuration = <<>>
  /\ IdleEndmembers /\ IdleQHA

dilute_substitution ==
  /\ pc = "start"
  /\ dilute_strs' = DiluteSubstitution(structures, element_dict, sga.orbits)
  /\ pc' = "dilute"
  /\ UNCHANGED <<structures, element_dict, templateVars, endmemberVars, qhaVars>>

NextDilute == dilute_substitution

SpecDilute == InitDilute /\ [][NextDilute]_vars

----------------------------------------------------------------------------
(* tests/test_QHA_failure.py: QHAAnalysis_failure.run_task                   *)
(* The database holds, for the task's tag: statics adopted static            *)
(* calculations, phonon adopted phonon calculations, and phonon_other        *)
(* phonon documents the query of line 124 does not match (not adopted, or    *)
(* of another tag). The calls into pymatgen, phonopy and dfttk.analysis are  *)
(* taken to return.                                                          *)

\* line 124: len(list(vasp_db.db['phonon'].find({'$and': [{'metadata.tag': tag},
\* {'adopted': True}]})))
NumPhonons(db) == db.phonon

\* a build of line 125 that asks for more than 5 calculations
HasPhonon_Above(num_phonons) == num_phonons > 5

\* line 125
HasPhonon(num_phonons) == num_phonons >= 5

\* line 189: self.get("test_failure", False)
TestFailure(t) == IF t.test_failure = "absent" THEN FALSE ELSE t.test_failure = "true"

\* lines 96-102: structure is still None when no static calculation matched
StructureIsNone(db) == db.statics = 0

InitQHA ==
  /\ pc = "start"
  /\ task \in [test_failure : {"absent", "true", "false"}, outcome : {"none"}]
  /\ vasp_db \in [statics : 0..MaxStatics, phonon : 0..MaxPhonons,
                  phonon_other : 0..1, qha : {0}, qha_phonon : {0}]
  /\ qha_summary = NoSummary
  /\ IdleModeler /\ IdleEndmembers /\ IdleDilute

\* lines 85-194
run_task ==
  /\ pc = "start"
  /\ IF StructureIsNone(vasp_db)
     THEN \* line 112: structure.as_dict() on None raises AttributeError
          /\ task' = [task EXCEPT !.outcome = "AttributeError"]
          /\ UNCHANGED <<vasp_db, qha_summary>>
     ELSE LET has_phonon == HasPhonon(NumPhonons(vasp_db))
          IN  \* lines 127-139 and 186-187
              /\ qha_summary' = [written |-> TRUE, has_phonon |-> has_phonon,
                                 phonon |-> has_phonon]
              /\ task' = [task EXCEPT !.outcome = "returned"]
              /\ IF TestFailure(task)
                 THEN UNCHANGED vasp_db                       \* line 189
                 ELSE IF has_phonon                           \* lines 191-194
                      THEN vasp_db' = [vasp_db EXCEPT !.qha_phonon = @ + 1]
                      ELSE vasp_db' = [vasp_db EXCEPT !.qha = @ + 1]
  /\ pc' = "ran"
  /\ UNCHANGED <<templateVars, endmemberVars, diluteVars>>

NextQHA == run_task

SpecQHA == InitQHA /\ [][NextQHA]_vars

----------------------------------------------------------------------------
(* Claims about the sublattice modeler *)

\* the labels the symmetry analysis gave for the caller's structure
GivenWyckoffs == {e.wyckoffs : e \in sga}

StrictlyAscending(names) ==
  \A i \in DOMAIN names : \A j \in DOMAIN names : i < j => StrLess(names[i], names[j])

C5_CallerStructureUntouched ==
  pc \in {"sublattice_information", "templates"} => structure = snapshot

\* C3: in the template returned by get_templates every site carries the
\* element of atomic number i+1, i the 0-based index of the site's post-merge
\* label in the sorted sublattice_names; two sites carry the same placeholder
\* iff they are in the same sublattice; template_configuration has one entry
\* per sublattice.
C3_TemplatePlaceholders ==
  pc = "templates" =>
    LET names == template_locals.true_sublattices
        label(k) == template_locals.site_list[k].sublattice_sites
        species == template_structure.species
    IN  /\ Len(template_configuration) = Len(names)
        /\ \A k \in DOMAIN species :
             species[k] = ElementFromZ(IndexOf(names, label(k)))
        /\ \A j \in DOMAIN species : \A k \in DOMAIN species :
             (species[j] = species[k]) <=> (label(j) = label(k))

\* C9: get_sublattice_information, called with no equivalence map on the
\* template that get_templates built (with no map), returns the site_list and
\* the sublattice_names the template was built from.
C9_RerunSamePartition ==
  (pc = "rerun" /\ equivalent_wyckoff_sites.none) =>
    /\ site_list = template_locals.site_list
    /\ subl_model_name = template_locals.true_sublattices

C9_Witness ==
  /\ pc = "rerun"
  /\ equivalent_wyckoff_sites.none
  /\ Len(template_locals.true_sublattices) >= 2
  /\ \E k \in DOMAIN snapshot.species : snapshot.species[k] # sH
  /\ site_list = template_locals.site_list

----------------------------------------------------------------------------
(* Claims about the endmember generator *)

Distinct(s) == \A i \in DOMAIN s : \A j \in DOMAIN s : s[i] = s[j] => i = j

RECURSIVE ProductOfSizes(_)
ProductOfSizes(lists) ==
  IF lists = <<>> THEN 1 ELSE Len(Head(lists)) * ProductOfSizes(Tail(lists))

SublatticeOf(k) ==
  IndexOf(template_locals.true_sublattices, template_locals.site_list[k].sublattice_sites)

\* C2: for a template built by get_templates with k sublattices and k non-empty
\* candidate lists, every returned endmember has on every site of sublattice i
\* an element of sublattice_configuration[i], and the endmembers correspond
\* one-to-one to the tuples of the Cartesian product of the candidate lists.
C2_EndmembersFollowConfiguration ==
  (/\ pc = "endmembers"
   /\ template_locals.generated
   /\ Len(sublattice_configuration) = Len(template_configuration)
   /\ \A i \in DOMAIN sublattice_configuration : sublattice_configuration[i] # <<>>) =>
     LET sc == sublattice_configuration
         tuples == {t \in [DOMAIN sc -> UNION {Range(sc[i]) : i \in DOMAIN sc}] :
                      \A i \in DOMAIN sc : t[i] \in Range(sc[i])}
         follows(e, t) == \A k \in DOMAIN e.species : e.species[k] = t[SublatticeOf(k)]
     IN  /\ endmembers.status = "returned"
         /\ \A n \in DOMAIN endmembers.value :
              \A k \in DOMAIN endmembers.value[n].species :
                endmembers.value[n].species[k] \in Range(sc[SublatticeOf(k)])
         /\ \A t \in tuples :
              Cardinality({n \in DOMAIN endmembers.value :
                             follows(endmembers.value[n], t)}) = 1
         /\ \A n \in DOMAIN endmembers.value :
              \E t \in tuples : follows(endmembers.value[n], t)

\* C8: get_endmembers_with_templates raises an error, and returns no list,
\* whenever the length of sublattice_configuration differs from the length of
\* template_configuration or a candidate list is empty.
C8_MismatchRaises ==
  (/\ pc = "endmembers"
   /\ \/ Len(sublattice_configuration) # Len(template_configuration)
      \/ \E i \in DOMAIN sublattice_configuration : sublattice_configuration[i] = <<>>) =>
     endmembers.status # "returned"

----------------------------------------------------------------------------
(* Claims about the dilute generator *)

\* the representative sites of input s, the pool size, and how often x is in it
Representatives(strs) == Range(EquivalentAtoms(strs, sga.orbits))
Occurrences(pool, x) == Cardinality({j \in DOMAIN pool : pool[j] = x})

\* the sum of the values of a function with a finite domain
RECURSIVE Sum(_)
Sum(f) ==
  IF DOMAIN f = {} THEN 0
  ELSE LET x == CHOOSE y \in DOMAIN f : TRUE
       IN  f[x] + Sum([y \in DOMAIN f \ {x} |-> f[y]])

\* what the claim counts for one input
ClaimedCount(strs) ==
  Sum([i \in Representatives(strs) |->
         IF Occurrences(element_dict, strs.species[i]) = 1
         THEN Len(element_dict) - 1 ELSE Len(element_dict)])

CleanPool(strs) ==
  \A i \in Representatives(strs) : Occurrences(element_dict, strs.species[i]) <= 1

\* for every output, the input it was derived from: input s gives, for each of
\* its representative sites, one output per pool entry other than the site's
\* element, and the outputs of input s come after those of the inputs before it
Sources ==
  Flatten([s \in DOMAIN structures |->
     [j \in 1..Sum([i \in Representatives(structures[s]) |->
                      Len(element_dict)
                        - Occurrences(element_dict, structures[s].species[i])]) |-> s]])

AllRepresentatives == [s \in DOMAIN structures |-> Representatives(structures[s])]

DiffersInOneSite(out, strs, reps) ==
  /\ out.lattice = strs.lattice
  /\ out.properties = strs.properties
  /\ Len(out.species) = Len(strs.species)
  /\ \E i \in reps :
       /\ out.species[i] # strs.species[i]
       /\ out.species[i] \in Range(element_dict)
       /\ \A k \in DOMAIN strs.species : k # i => out.species[k] = strs.species[k]

----------------------------------------------------------------------------
(* Claims about the QHA task *)

\* what the claim says of a finished run
InsertDispatch ==
  /\ qha_summary.written
  /\ qha_summary.has_phonon = (vasp_db.phonon >= 5)
  /\ qha_summary.phonon = qha_summary.has_phonon
  /\ task.test_failure = "true" => (vasp_db.qha = 0 /\ vasp_db.qha_phonon = 0)
  /\ task.test_failure # "true" =>
       /\ vasp_db.qha + vasp_db.qha_phonon = 1
       /\ (vasp_db.qha_phonon = 1) = (vasp_db.phonon >= 5)

====
